---- MODULE Spec2Model ----
(***************************************************************************)
(* Model of spotkit/api.py: the SpotKitAPI client.  The state is the       *)
(* client object's attributes plus a record of the HTTP exchanges that the *)
(* most recent operation (the constructor or one public method) issued     *)
(* through the requests library, which is the environment: for every       *)
(* request it either raises a requests exception or answers with a parsed  *)
(* JSON body.                                                              *)
(***************************************************************************)
EXTENDS Integers, Sequences, FiniteSets, TLC

VARIABLES
    constructed,        \* TRUE once __init__ has returned normally
    version,            \* self.version
    api_key,            \* self.api_key
    client_id,          \* self.client_id
    client_secret,      \* self.client_secret
    use_basic_auth,     \* self.use_basic_auth
    headers,            \* self.headers
    init,               \* the arguments and the exchanges of __init__
    call,               \* the most recent operation and its arguments
    exchanges,          \* the HTTP exchanges that operation issued, in order
    result,             \* what that operation returned or raised
    tokenRequests,      \* number of POSTs to auth/oauth2/token so far
    resourceSent        \* TRUE once any other request has been issued

config == <<version, api_key, client_id, client_secret, use_basic_auth, headers>>
vars == <<constructed, version, api_key, client_id, client_secret,
          use_basic_auth, headers, init, call, exchanges, result,
          tokenRequests, resourceSent>>

\* ------------------------------------------------------------------------
\* Python values.  Every value is a record tagged with its Python type, so
\* that truthiness, str() and json.dumps() can be computed as Python does.
\* ------------------------------------------------------------------------
None == [t |-> "NoneType", v |-> "None"]
True_ == [t |-> "bool", v |-> "True"]
False_ == [t |-> "bool", v |-> "False"]
Str(s) == [t |-> "str", v |-> s]
PyInt(s) == [t |-> "int", v |-> s]
\* an object json cannot encode (a set, a datetime, ...)
Obj(s) == [t |-> "object", v |-> s]
List(items) == [t |-> "list", items |-> items]
\* a dict: its keys in insertion order and the key -> value mapping
Dict(keys, d) == [t |-> "dict", keys |-> keys, d |-> d]
EmptyDict == Dict(<<>>, <<>>)
Dict1(k, x) == Dict(<<k>>, (k :> x))
Dict2(k1, x1, k2, x2) == Dict(<<k1, k2>>, (k1 :> x1 @@ k2 :> x2))
HTTPBasicAuth(username, password) ==
    [t |-> "HTTPBasicAuth", username |-> username, password |-> password]
\* an attribute that has not been assigned yet
NoAttr == [t |-> "unset", v |-> ""]

\* bool(x)
Truthy(x) ==
    CASE x.t = "NoneType" -> FALSE
      [] x.t = "bool" -> x.v = "True"
      [] x.t = "str" -> x.v # ""
      [] x.t = "int" -> x.v # "0"
      [] x.t = "list" -> Len(x.items) > 0
      [] x.t = "dict" -> Len(x.keys) > 0
      [] OTHER -> TRUE

\* str(x) as an f-string interpolates it
PyStr(x) == x.v

\* dict.get(key): the value, or None when the key is missing
Get(x, key) == IF key \in DOMAIN x.d THEN x.d[key] ELSE None

Return(x) == [kind |-> "return", value |-> x]
Raise(e) == [kind |-> "raise", exc |-> e]

\* ------------------------------------------------------------------------
\* json.dumps
\* ------------------------------------------------------------------------
RECURSIVE Serializable(_)
Serializable(x) ==
    CASE x.t \in {"NoneType", "bool", "str", "int"} -> TRUE
      [] x.t = "list" -> \A i \in 1..Len(x.items) : Serializable(x.items[i])
      [] x.t = "dict" -> \A i \in 1..Len(x.keys) : Serializable(x.d[x.keys[i]])
      [] OTHER -> FALSE

RECURSIVE JoinText(_, _)
JoinText(texts, sep) ==
    IF Len(texts) = 0 THEN ""
    ELSE IF Len(texts) = 1 THEN texts[1]
    ELSE texts[1] \o sep \o JoinText(Tail(texts), sep)

RECURSIVE JsonText(_)
JsonText(x) ==
    CASE x.t = "NoneType" -> "null"
      [] x.t = "bool" -> IF x.v = "True" THEN "true" ELSE "false"
      [] x.t = "int" -> x.v
      [] x.t = "str" -> "\"" \o x.v \o "\""
      [] x.t = "list" ->
            "[" \o JoinText([i \in 1..Len(x.items) |-> JsonText(x.items[i])], ", ") \o "]"
      [] x.t = "dict" ->
            "{" \o JoinText([i \in 1..Len(x.keys) |->
                     "\"" \o x.keys[i] \o "\": " \o JsonText(x.d[x.keys[i]])], ", ") \o "}"

\* json.dumps(x): the JSON text, or TypeError for a value json cannot encode
json_dumps(x) ==
    IF Serializable(x) THEN Return(Str(JsonText(x))) ELSE Raise("TypeError")

\* ------------------------------------------------------------------------
\* The HTTP layer (requests) as the environment
\* ------------------------------------------------------------------------
BASE_URL == "https://api.latest.highspot.com"

\* the exceptions requests.get/post/patch/delete and raise_for_status raise
TransportErrors == {"ConnectionError", "Timeout", "HTTPError"}

\* a handler that lets the error of raise_for_status() escape
RequestException_NoHTTPError(exc) == exc \in {"ConnectionError", "Timeout"}

\* except requests.exceptions.RequestException
RequestException(exc) == exc \in {"ConnectionError", "Timeout", "HTTPError"}

Failed(exc) == [kind |-> "exc", exc |-> exc]
Ok(body) == [kind |-> "ok", body |-> body]

\* a record of a collection: a user, spot, item or group
Record(id, title) == Dict2("id", Str(id), "title", Str(title))

\* parsed JSON bodies the remote API may answer with
Bodies ==
    { EmptyDict,
      Dict1("access_token", Str("tok")),
      Dict1("collection", List(<<>>)),
      Dict1("collection", List(<<Record("r2", "B"), Record("r1", "A"),
                                 Record("r3", "A")>>)) }

Outcomes == {Failed(e) : e \in TransportErrors} \cup {Ok(b) : b \in Bodies}

\* outcomes of the token request: also an answer whose token is empty
TokenOutcomes == Outcomes \cup {Ok(Dict1("access_token", Str("")))}

Request(method, url, hdrs, params, data, auth) ==
    [method |-> method, url |-> url, headers |-> hdrs, params |-> params,
     data |-> data, auth |-> auth]

Exchange(req, outcome, returned) ==
    [request |-> req, outcome |-> outcome, returned |-> returned]

\* ------------------------------------------------------------------------
\* SpotKitAPI private helpers.  self is a record of the client's attributes.
\* ------------------------------------------------------------------------
_get_full_url(self, endpoint) ==
    BASE_URL \o "/" \o self.version \o "/" \o endpoint

_get_auth(self) ==
    IF Truthy(self.use_basic_auth) /\ Truthy(self.client_id) /\ Truthy(self.client_secret)
    THEN HTTPBasicAuth(self.client_id, self.client_secret)
    ELSE None

\* the try/except body shared in shape by the four verb helpers:
\* raise_for_status(), response.json(), except RequestException
_get(self, endpoint, params, outcome) ==
    LET url == _get_full_url(self, endpoint)
        req == Request("GET", url, self.headers, params, None, _get_auth(self))
    IN  Exchange(req, outcome,
            IF outcome.kind = "ok" THEN Return(outcome.body)
            ELSE IF RequestException(outcome.exc)
                 THEN Return(Dict1("error", Str(outcome.exc)))
                 ELSE Raise(outcome.exc))

_post(self, endpoint, data, auth, hdrs, outcome) ==
    LET url == _get_full_url(self, endpoint)
        h == IF Truthy(hdrs) THEN hdrs ELSE self.headers
        req == Request("POST", url, h, None, data,
                       IF Truthy(auth) THEN auth ELSE _get_auth(self))
    IN  Exchange(req, outcome,
            IF outcome.kind = "ok" THEN Return(outcome.body)
            ELSE IF RequestException(outcome.exc)
                 THEN Return(Dict1("error", Str(outcome.exc)))
                 ELSE Raise(outcome.exc))

_patch(self, endpoint, data, outcome) ==
    LET url == _get_full_url(self, endpoint)
        req == Request("PATCH", url, self.headers, None, data, _get_auth(self))
    IN  Exchange(req, outcome,
            IF outcome.kind = "ok" THEN Return(outcome.body)
            ELSE IF RequestException(outcome.exc)
                 THEN Return(Dict1("error", Str(outcome.exc)))
                 ELSE Raise(outcome.exc))

_delete(self, endpoint, outcome) ==
    LET url == _get_full_url(self, endpoint)
        req == Request("DELETE", url, self.headers, None, None, _get_auth(self))
    IN  Exchange(req, outcome,
            IF outcome.kind = "ok" THEN Return(outcome.body)
            ELSE IF RequestException(outcome.exc)
                 THEN Return(Dict1("error", Str(outcome.exc)))
                 ELSE Raise(outcome.exc))

\* _get_bearer_token: the exchange of the token POST and what the method
\* returns (the access token, None when the answer has none, False when the
\* answer is empty or a requests exception escaped _post)
TOKEN_ENDPOINT == "auth/oauth2/token"

_get_bearer_token(self, outcome) ==
    LET ex == _post(self, TOKEN_ENDPOINT,
                    Dict1("grant_type", Str("client_credentials")),
                    HTTPBasicAuth(self.client_id, self.client_secret),
                    Dict1("Content-Type", Str("application/x-www-form-urlencoded")),
                    outcome)
        token_response == ex.returned.value
    IN  [exchanges |-> <<ex>>,
         returned |->
            IF ex.returned.kind = "raise"
            THEN IF RequestException(ex.returned.exc)
                 THEN Return(False_) ELSE ex.returned
            ELSE Return(IF Truthy(token_response)
                        THEN Get(token_response, "access_token")
                        ELSE False_)]

\* the headers as the line commented out in __init__ built them
InitHeaders_AlwaysBearer(key, uba) ==
    Dict2("Authorization", Str("Bearer " \o PyStr(key)),
          "Content-Type", Str("application/json"))

\* headers that leave the token out when there is none
InitHeaders_EmptyWhenFalsy(key, uba) ==
    Dict2("Authorization",
          Str(IF ~Truthy(uba)
              THEN "Bearer " \o (IF Truthy(key) THEN PyStr(key) ELSE "")
              ELSE ""),
          "Content-Type", Str("application/json"))

\* the headers __init__ stores
InitHeaders(key, uba) ==
    Dict2("Authorization",
          Str(IF ~Truthy(uba) THEN "Bearer " \o PyStr(key) ELSE ""),
          "Content-Type", Str("application/json"))

\* the condition of the line commented out in __init__, without the flag
NeedsToken_IgnoresFlag(uba, key, cid, secret) ==
    ~Truthy(key) /\ Truthy(cid) /\ Truthy(secret)

\* __init__ fetches a token exactly under this condition
NeedsToken(uba, key, cid, secret) ==
    ~Truthy(uba) /\ ~Truthy(key) /\ Truthy(cid) /\ Truthy(secret)

\* ------------------------------------------------------------------------
\* SpotKitAPI public methods, as functions of the client, the arguments and
\* the outcomes of the requests they issue: the exchanges and the result
\* ------------------------------------------------------------------------
Did(exs, ret) == [exchanges |-> exs, returned |-> ret]

\* {key: value for key, value in params.items() if value is not None}
DropNone(params) ==
    LET Keep(k) == params.d[k] # None
        keys == SelectSeq(params.keys, Keep)
    IN  Dict(keys, [k \in {keys[i] : i \in 1..Len(keys)} |-> params.d[k]])

\* "except Exception" around json.dumps and _post
ExceptException(ret) ==
    IF ret.kind = "raise" THEN Return(Dict1("error", Str(ret.exc))) ELSE ret

\* a get_current_user that fetches a fresh token before its request
get_current_user_Refetch(self, outcome) ==
    LET ex == _get(self, "me", None, outcome)
    IN  Did(_get_bearer_token(self, outcome).exchanges \o <<ex>>, ex.returned)

get_current_user(self, outcome) ==
    LET ex == _get(self, "me", None, outcome)
    IN  Did(<<ex>>, ex.returned)

list_users(self, email, limit, start, list_options, with_fields, exclude_fields, outcome) ==
    LET params == Dict(<<"email", "limit", "start", "list", "with-fields", "exclude-fields">>,
                       ("email" :> email @@ "limit" :> limit @@ "start" :> start
                          @@ "list" :> list_options @@ "with-fields" :> with_fields
                          @@ "exclude-fields" :> exclude_fields))
        ex == _get(self, "users", DropNone(params), outcome)
    IN  Did(<<ex>>, ex.returned)

\* a payload posted as it is, as the create methods post theirs
UserBatch_Unwrapped(user_data) == user_data

\* [user_data]: the one-element batch add_user serializes
UserBatch(user_data) == List(<<user_data>>)

add_user(self, user_data, outcome) ==
    LET json_data == json_dumps(UserBatch(user_data))
        ex == _post(self, "users", json_data.value, None, None, outcome)
    IN  IF json_data.kind = "raise"
        THEN Did(<<>>, ExceptException(json_data))
        ELSE Did(<<ex>>, ExceptException(ex.returned))

delete_user(self, user_id, outcome) ==
    LET ex == _delete(self, "users/" \o PyStr(user_id), outcome)
    IN  Did(<<ex>>, ex.returned)

\* a check that only looks for absent arguments, not for empty ones
MissingIdentity_OnlyNone(id, email) == id = None /\ email = None

\* "if not id and not email"
MissingIdentity(id, email) == ~Truthy(id) /\ ~Truthy(email)

\* a lookup that raises when it finds nobody
UserNotFound_Raises(looked) == Did(looked.exchanges, Raise("LookupError"))

\* the else branch of the lookup: log and return the not-found mapping
UserNotFound(looked) ==
    Did(looked.exchanges,
        Return(Dict1("error", Str("User not found with the provided email."))))

get_user(self, id, email, outcome1, outcome2) ==
    IF MissingIdentity(id, email)
    THEN Did(<<>>, Raise("ValueError"))
    ELSE IF Truthy(email)
    THEN LET looked == list_users(self, email, PyInt("25"), PyInt("0"), Str("all"),
                                  None, None, outcome1)
             users == looked.returned.value
         IN  IF looked.returned.kind = "raise"
             THEN looked
             ELSE IF Truthy(Get(users, "collection"))
             THEN LET id1 == users.d["collection"].items[1].d["id"]
                      ex == _get(self, "users/" \o PyStr(id1), None, outcome2)
                  IN  Did(looked.exchanges \o <<ex>>, ex.returned)
             ELSE UserNotFound(looked)
    ELSE LET ex == _get(self, "users/" \o PyStr(id), None, outcome1)
         IN  Did(<<ex>>, ex.returned)

list_spots(self, role, limit, start, outcome) ==
    LET params == Dict(<<"role", "limit", "start">>,
                       ("role" :> role @@ "limit" :> limit @@ "start" :> start))
        ex == _get(self, "spots", params, outcome)
    IN  Did(<<ex>>, ex.returned)

get_spot(self, spot_id, outcome) ==
    LET ex == _get(self, "spots/" \o PyStr(spot_id), None, outcome)
    IN  Did(<<ex>>, ex.returned)

create_spot(self, spot_data, outcome) ==
    LET json_data == json_dumps(spot_data)
        ex == _post(self, "spots", json_data.value, None, None, outcome)
    IN  IF json_data.kind = "raise"
        THEN Did(<<>>, ExceptException(json_data))
        ELSE Did(<<ex>>, ExceptException(ex.returned))

update_spot(self, spot_id, spot_data, outcome) ==
    LET ex == _patch(self, "spots/" \o PyStr(spot_id), spot_data, outcome)
    IN  Did(<<ex>>, ex.returned)

delete_spot(self, spot_id, outcome) ==
    LET ex == _delete(self, "spots/" \o PyStr(spot_id), outcome)
    IN  Did(<<ex>>, ex.returned)

\* a scan that keeps going and so returns the last record with the title
FirstTitled_Last(spots, spot_name) ==
    LET matches == {i \in 1..Len(spots) : Get(spots[i], "title") = spot_name}
    IN  IF matches = {} THEN Str("Spot not found")
        ELSE Get(spots[CHOOSE i \in matches : \A j \in matches : j <= i], "id")

\* the loop of get_spot_by_name over the collection
RECURSIVE FirstTitled(_, _)
FirstTitled(spots, spot_name) ==
    IF Len(spots) = 0 THEN Str("Spot not found")
    ELSE IF Get(spots[1], "title") = spot_name THEN Get(spots[1], "id")
    ELSE FirstTitled(Tail(spots), spot_name)

get_spot_by_name(self, spot_name, role, outcome) ==
    LET listed == list_spots(self, role, PyInt("100"), PyInt("0"), outcome)
        spots == listed.returned.value
        collection == IF "collection" \in DOMAIN spots.d
                      THEN spots.d["collection"] ELSE List(<<>>)
    IN  IF listed.returned.kind = "raise"
        THEN listed
        ELSE Did(listed.exchanges, Return(FirstTitled(collection.items, spot_name)))

list_items_in_spot(self, spot_id, limit, start, outcome) ==
    LET params == Dict(<<"limit", "start">>, ("limit" :> limit @@ "start" :> start))
        ex == _get(self, "spots/" \o PyStr(spot_id) \o "/lists", params, outcome)
    IN  Did(<<ex>>, ex.returned)

get_item(self, item_id, outcome) ==
    LET ex == _get(self, "items/" \o PyStr(item_id), None, outcome)
    IN  Did(<<ex>>, ex.returned)

add_item(self, spot_id, item_data, outcome) ==
    LET json_data == json_dumps(item_data)
        ex == _post(self, "spots/" \o PyStr(spot_id) \o "/items", json_data.value,
                    None, None, outcome)
    IN  IF json_data.kind = "raise"
        THEN Did(<<>>, ExceptException(json_data))
        ELSE Did(<<ex>>, ExceptException(ex.returned))

update_item(self, item_id, item_data, outcome) ==
    LET ex == _patch(self, "items/" \o PyStr(item_id), item_data, outcome)
    IN  Did(<<ex>>, ex.returned)

delete_item(self, item_id, outcome) ==
    LET ex == _delete(self, "items/" \o PyStr(item_id), outcome)
    IN  Did(<<ex>>, ex.returned)

list_groups(self, role, limit, start, outcome) ==
    LET params == Dict(<<"role", "limit", "start">>,
                       ("role" :> role @@ "limit" :> limit @@ "start" :> start))
        ex == _get(self, "groups", params, outcome)
    IN  Did(<<ex>>, ex.returned)

get_group(self, group_id, outcome) ==
    LET ex == _get(self, "groups/" \o PyStr(group_id), None, outcome)
    IN  Did(<<ex>>, ex.returned)

create_group(self, group_data, outcome) ==
    LET json_data == json_dumps(group_data)
        ex == _post(self, "groups", json_data.value, None, None, outcome)
    IN  IF json_data.kind = "raise"
        THEN Did(<<>>, ExceptException(json_data))
        ELSE Did(<<ex>>, ExceptException(ex.returned))

update_group(self, group_id, group_data, outcome) ==
    LET ex == _patch(self, "groups/" \o PyStr(group_id), group_data, outcome)
    IN  Did(<<ex>>, ex.returned)

delete_group(self, group_id, outcome) ==
    LET ex == _delete(self, "groups/" \o PyStr(group_id), outcome)
    IN  Did(<<ex>>, ex.returned)

\* ------------------------------------------------------------------------
\* State
\* ------------------------------------------------------------------------
Self ==
    [version |-> version, api_key |-> api_key, client_id |-> client_id,
     client_secret |-> client_secret, use_basic_auth |-> use_basic_auth,
     headers |-> headers]

Call(op, keys, args) == [op |-> op, args |-> Dict(keys, args)]

Versions == {"v1.0"}
ApiKeys == {None, Str("key")}
ClientIds == {None, Str("cid")}
ClientSecrets == {None, Str("sec")}
Flags == {True_, False_}

\* arguments the caller may pass
Ids == {Str("r1")}
UserIds == {None, Str(""), Str("r7")}
Emails == {None, Str(""), Str("e@x")}
EmailFilters == {None, Str("e@x")}
Limits(default) == {PyInt(default), PyInt("10")}
\* outcomes of the request that follows the lookup of get_user
DetailOutcomes == {Failed("HTTPError"), Ok(EmptyDict)}
Starts == {PyInt("0")}
ListOptions == {None, Str("all")}
FieldLists == {None, Str("id,name")}
Roles == {None, Str("viewer")}
SpotNames == {Str("A"), Str("Z")}
Payloads ==
    { Dict2("email", Str("n@x"), "active", True_),
      Dict1("joined", Obj("datetime")) }

IsTokenRequest(req) ==
    \E ver \in Versions : req.url = BASE_URL \o "/" \o ver \o "/" \o TOKEN_ENDPOINT

Init ==
    /\ constructed = FALSE
    /\ version = NoAttr
    /\ api_key = NoAttr
    /\ client_id = NoAttr
    /\ client_secret = NoAttr
    /\ use_basic_auth = NoAttr
    /\ headers = NoAttr
    /\ init = [args |-> EmptyDict, exchanges |-> <<>>]
    /\ call = Call("none", <<>>, <<>>)
    /\ exchanges = <<>>
    /\ result = Return(None)
    /\ tokenRequests = 0
    /\ resourceSent = FALSE

\* SpotKitAPI(version, api_key, client_id, client_secret, use_basic_auth)
SpotKitAPI_init ==
    /\ ~constructed
    /\ \E ver \in Versions, key \in ApiKeys, cid \in ClientIds,
          secret \in ClientSecrets, uba \in Flags, outcome \in TokenOutcomes :
        LET self0 == [version |-> ver, api_key |-> key, client_id |-> cid,
                      client_secret |-> secret, use_basic_auth |-> uba]
            need == NeedsToken(uba, key, cid, secret)
            tok == _get_bearer_token(self0, outcome)
            failed == need /\ tok.returned.kind = "raise"
            key1 == IF need /\ ~failed THEN tok.returned.value ELSE key
            exs == IF need THEN tok.exchanges ELSE <<>>
            args == Dict(<<"version", "api_key", "client_id", "client_secret",
                           "use_basic_auth">>,
                         ("version" :> Str(ver) @@ "api_key" :> key @@ "client_id" :> cid
                            @@ "client_secret" :> secret @@ "use_basic_auth" :> uba))
        IN  /\ version' = ver
            /\ client_id' = cid
            /\ client_secret' = secret
            /\ use_basic_auth' = uba
            /\ api_key' = key1
            /\ headers' = IF failed THEN NoAttr ELSE InitHeaders(key1, uba)
            /\ constructed' = ~failed
            /\ init' = [args |-> args, exchanges |-> exs]
            /\ call' = [op |-> "__init__", args |-> args]
            /\ exchanges' = exs
            /\ result' = IF failed THEN tok.returned ELSE Return(None)
            /\ tokenRequests' = tokenRequests + Cardinality(
                  {i \in 1..Len(exs) : IsTokenRequest(exs[i].request)})
            /\ resourceSent' =
                  (resourceSent \/ \E i \in 1..Len(exs) : ~IsTokenRequest(exs[i].request))

\* a call that forgets the stored token when its result is an error mapping
Called_DropsTokenOnError(op, keys, args, did) ==
    /\ call' = Call(op, keys, args)
    /\ exchanges' = did.exchanges
    /\ result' = did.returned
    /\ tokenRequests' = tokenRequests + Cardinality(
          {i \in 1..Len(did.exchanges) : IsTokenRequest(did.exchanges[i].request)})
    /\ resourceSent' =
          (resourceSent \/ \E i \in 1..Len(did.exchanges) :
                              ~IsTokenRequest(did.exchanges[i].request))
    /\ api_key' = (IF did.returned.kind = "return" /\ did.returned.value.t = "dict"
                      /\ "error" \in DOMAIN did.returned.value.d
                   THEN None ELSE api_key)
    /\ UNCHANGED <<constructed, version, client_id, client_secret,
                   use_basic_auth, headers, init>>

\* a public method call: its arguments, the exchanges it issued and its
\* result are recorded, the requests are counted by kind, and no attribute
\* of the client is assigned
Called(op, keys, args, did) ==
    /\ call' = Call(op, keys, args)
    /\ exchanges' = did.exchanges
    /\ result' = did.returned
    /\ tokenRequests' = tokenRequests + Cardinality(
          {i \in 1..Len(did.exchanges) : IsTokenRequest(did.exchanges[i].request)})
    /\ resourceSent' =
          (resourceSent \/ \E i \in 1..Len(did.exchanges) :
                              ~IsTokenRequest(did.exchanges[i].request))
    /\ UNCHANGED <<constructed, config, init>>

\* a method can be called on a client whose construction returned
CanCall == constructed

do_get_current_user ==
    /\ CanCall
    /\ \E outcome \in Outcomes :
        Called("get_current_user", <<>>, <<>>, get_current_user(Self, outcome))

do_list_users ==
    /\ CanCall
    /\ \E email \in EmailFilters, limit \in {PyInt("25")}, start \in Starts,
          list_options \in ListOptions, with_fields \in FieldLists,
          exclude_fields \in FieldLists, outcome \in Outcomes :
        Called("list_users",
               <<"email", "limit", "start", "list_options", "with_fields", "exclude_fields">>,
               ("email" :> email @@ "limit" :> limit @@ "start" :> start
                  @@ "list_options" :> list_options @@ "with_fields" :> with_fields
                  @@ "exclude_fields" :> exclude_fields),
               list_users(Self, email, limit, start, list_options, with_fields,
                          exclude_fields, outcome))

do_add_user ==
    /\ CanCall
    /\ \E user_data \in Payloads, outcome \in Outcomes :
        Called("add_user", <<"user_data">>, ("user_data" :> user_data),
               add_user(Self, user_data, outcome))

do_delete_user ==
    /\ CanCall
    /\ \E user_id \in Ids, outcome \in Outcomes :
        Called("delete_user", <<"user_id">>, ("user_id" :> user_id),
               delete_user(Self, user_id, outcome))

do_get_user ==
    /\ CanCall
    /\ \E id \in UserIds, email \in Emails, outcome1 \in Outcomes,
          outcome2 \in DetailOutcomes :
        Called("get_user", <<"id", "email">>, ("id" :> id @@ "email" :> email),
               get_user(Self, id, email, outcome1, outcome2))

do_list_spots ==
    /\ CanCall
    /\ \E role \in Roles, limit \in Limits("100"), start \in Starts, outcome \in Outcomes :
        Called("list_spots", <<"role", "limit", "start">>,
               ("role" :> role @@ "limit" :> limit @@ "start" :> start),
               list_spots(Self, role, limit, start, outcome))

do_get_spot ==
    /\ CanCall
    /\ \E spot_id \in Ids, outcome \in Outcomes :
        Called("get_spot", <<"spot_id">>, ("spot_id" :> spot_id),
               get_spot(Self, spot_id, outcome))

do_create_spot ==
    /\ CanCall
    /\ \E spot_data \in Payloads, outcome \in Outcomes :
        Called("create_spot", <<"spot_data">>, ("spot_data" :> spot_data),
               create_spot(Self, spot_data, outcome))

do_update_spot ==
    /\ CanCall
    /\ \E spot_id \in Ids, spot_data \in Payloads, outcome \in Outcomes :
        Called("update_spot", <<"spot_id", "spot_data">>,
               ("spot_id" :> spot_id @@ "spot_data" :> spot_data),
               update_spot(Self, spot_id, spot_data, outcome))

do_delete_spot ==
    /\ CanCall
    /\ \E spot_id \in Ids, outcome \in Outcomes :
        Called("delete_spot", <<"spot_id">>, ("spot_id" :> spot_id),
               delete_spot(Self, spot_id, outcome))

do_get_spot_by_name ==
    /\ CanCall
    /\ \E spot_name \in SpotNames, role \in Roles, outcome \in Outcomes :
        Called("get_spot_by_name", <<"spot_name", "role">>,
               ("spot_name" :> spot_name @@ "role" :> role),
               get_spot_by_name(Self, spot_name, role, outcome))

do_list_items_in_spot ==
    /\ CanCall
    /\ \E spot_id \in Ids, limit \in Limits("100"), start \in Starts, outcome \in Outcomes :
        Called("list_items_in_spot", <<"spot_id", "limit", "start">>,
               ("spot_id" :> spot_id @@ "limit" :> limit @@ "start" :> start),
               list_items_in_spot(Self, spot_id, limit, start, outcome))

do_get_item ==
    /\ CanCall
    /\ \E item_id \in Ids, outcome \in Outcomes :
        Called("get_item", <<"item_id">>, ("item_id" :> item_id),
               get_item(Self, item_id, outcome))

do_add_item ==
    /\ CanCall
    /\ \E spot_id \in Ids, item_data \in Payloads, outcome \in Outcomes :
        Called("add_item", <<"spot_id", "item_data">>,
               ("spot_id" :> spot_id @@ "item_data" :> item_data),
               add_item(Self, spot_id, item_data, outcome))

do_update_item ==
    /\ CanCall
    /\ \E item_id \in Ids, item_data \in Payloads, outcome \in Outcomes :
        Called("update_item", <<"item_id", "item_data">>,
               ("item_id" :> item_id @@ "item_data" :> item_data),
               update_item(Self, item_id, item_data, outcome))

do_delete_item ==
    /\ CanCall
    /\ \E item_id \in Ids, outcome \in Outcomes :
        Called("delete_item", <<"item_id">>, ("item_id" :> item_id),
               delete_item(Self, item_id, outcome))

do_list_groups ==
    /\ CanCall
    /\ \E role \in Roles, limit \in Limits("100"), start \in Starts, outcome \in Outcomes :
        Called("list_groups", <<"role", "limit", "start">>,
               ("role" :> role @@ "limit" :> limit @@ "start" :> start),
               list_groups(Self, role, limit, start, outcome))

do_get_group ==
    /\ CanCall
    /\ \E group_id \in Ids, outcome \in Outcomes :
        Called("get_group", <<"group_id">>, ("group_id" :> group_id),
               get_group(Self, group_id, outcome))

do_create_group ==
    /\ CanCall
    /\ \E group_data \in Payloads, outcome \in Outcomes :
        Called("create_group", <<"group_data">>, ("group_data" :> group_data),
               create_group(Self, group_data, outcome))

do_update_group ==
    /\ CanCall
    /\ \E group_id \in Ids, group_data \in Payloads, outcome \in Outcomes :
        Called("update_group", <<"group_id", "group_data">>,
               ("group_id" :> group_id @@ "group_data" :> group_data),
               update_group(Self, group_id, group_data, outcome))

do_delete_group ==
    /\ CanCall
    /\ \E group_id \in Ids, outcome \in Outcomes :
        Called("delete_group", <<"group_id">>, ("group_id" :> group_id),
               delete_group(Self, group_id, outcome))

Next ==
    \/ SpotKitAPI_init
    \/ do_get_current_user
    \/ do_list_users
    \/ do_add_user
    \/ do_delete_user
    \/ do_get_user
    \/ do_list_spots
    \/ do_get_spot
    \/ do_create_spot
    \/ do_update_spot
    \/ do_delete_spot
    \/ do_get_spot_by_name
    \/ do_list_items_in_spot
    \/ do_get_item
    \/ do_add_item
    \/ do_update_item
    \/ do_delete_item
    \/ do_list_groups
    \/ do_get_group
    \/ do_create_group
    \/ do_update_group
    \/ do_delete_group

Spec == Init /\ [][Next]_vars

\* ------------------------------------------------------------------------
\* Properties
\* ------------------------------------------------------------------------
Header(req, name) == Get(req.headers, name)

\* the request carries an Authorization header of the Bearer scheme
HasBearer(req) ==
    LET a == Header(req, "Authorization")
    IN  a.t = "str" /\ Len(a.v) >= 7 /\ SubSeq(a.v, 1, 7) = "Bearer "

\* the request carries HTTP Basic credentials
HasBasic(req) == req.auth.t = "HTTPBasicAuth"

Url(endpoint) == BASE_URL \o "/" \o version \o "/" \o endpoint

Requests == {exchanges[i].request : i \in 1..Len(exchanges)}

\* a client built with use_basic_auth=True and a client id and secret
BasicClient ==
    /\ constructed
    /\ Truthy(use_basic_auth) /\ Truthy(client_id) /\ Truthy(client_secret)

\* a client built with use_basic_auth=False, no api_key, a client id and secret
OAuthClient ==
    /\ constructed
    /\ ~Truthy(use_basic_auth) /\ ~Truthy(Get(init.args, "api_key"))
    /\ Truthy(client_id) /\ Truthy(client_secret)

\* C1: a client built with use_basic_auth=True and a client id and secret
\* issues no token request, in construction or later; every request it
\* issues carries HTTPBasicAuth(client_id, client_secret) and an
\* Authorization header equal to the empty string; and a successful
\* get_current_user is one GET of me that returns the parsed body unchanged.
C1_BasicAuthOnEveryCall ==
    BasicClient =>
        /\ init.exchanges = <<>>
        /\ tokenRequests = 0
        /\ \A req \in Requests :
              /\ ~IsTokenRequest(req)
              /\ req.auth = HTTPBasicAuth(client_id, client_secret)
              /\ "Authorization" \in DOMAIN req.headers.d
              /\ Header(req, "Authorization") = Str("")
        /\ (call.op = "get_current_user" =>
              /\ Len(exchanges) = 1
              /\ exchanges[1].request.method = "GET"
              /\ exchanges[1].request.url = Url("me")
              /\ exchanges[1].request.params = None
              /\ (exchanges[1].outcome.kind = "ok" =>
                    result = Return(exchanges[1].outcome.body)))

C1_Witness ==
    /\ BasicClient
    /\ call.op = "get_current_user"
    /\ Len(exchanges) = 1
    /\ exchanges[1].outcome.kind = "ok"
    /\ Truthy(exchanges[1].outcome.body)
    /\ result = Return(exchanges[1].outcome.body)

\* C2: a client built with use_basic_auth=False, no api_key and a client id
\* and secret has issued exactly one token request, the only request of its
\* construction and so earlier than every resource request, and no later
\* step issues another.
C2_OneTokenExchange ==
    /\ [](OAuthClient =>
            /\ tokenRequests = 1
            /\ Len(init.exchanges) = 1
            /\ IsTokenRequest(init.exchanges[1].request)
            /\ init.exchanges[1].request.method = "POST"
            /\ (call.op = "__init__" => ~resourceSent)
            /\ (call.op # "__init__" =>
                  \A req \in Requests : ~IsTokenRequest(req)))
    /\ [][OAuthClient => tokenRequests' = tokenRequests]_vars

C2_Witness ==
    /\ OAuthClient
    /\ tokenRequests = 1
    /\ resourceSent
    /\ call.op = "get_user"
    /\ Len(exchanges) = 2

\* the configurations in which a request carries neither credential: Basic
\* mode without a client id or without a client secret
BasicWithoutCredentials ==
    Truthy(use_basic_auth) /\ ~(Truthy(client_id) /\ Truthy(client_secret))

\* C3 as stated: every request carries exactly one of a Bearer
\* Authorization header and HTTP Basic credentials.
C3_ExactlyOneCredential ==
    \A req \in Requests : HasBearer(req) # HasBasic(req)

\* C3 as amended: no request carries both a Bearer Authorization header and
\* HTTP Basic credentials, and a request carries one of them unless the
\* client is in Basic mode without a client id or secret, where it carries
\* neither.
C3_NeverBothCredentials ==
    \A req \in Requests :
        /\ ~(HasBearer(req) /\ HasBasic(req))
        /\ (HasBearer(req) \/ HasBasic(req)) = ~BasicWithoutCredentials

C3_Witness ==
    /\ constructed
    /\ BasicWithoutCredentials
    /\ Len(exchanges) = 1
    /\ exchanges[1].request.method = "POST"
    /\ ~HasBearer(exchanges[1].request)
    /\ ~HasBasic(exchanges[1].request)

TokenAcquisitionFailed ==
    /\ Len(init.exchanges) = 1
    /\ IsTokenRequest(init.exchanges[1].request)
    /\ \/ init.exchanges[1].outcome.kind = "exc"
       \/ /\ init.exchanges[1].outcome.kind = "ok"
          /\ "access_token" \notin DOMAIN init.exchanges[1].outcome.body.d

\* an Authorization header value that carries no token
NoTokenValue(a) == a \in {Str(""), Str("Bearer"), Str("Bearer ")}

Arg(name) == Get(call.args, name)

\* C6: get_user with neither id nor email (absent or empty) raises
\* ValueError and issues no request.
C6_GetUserNeedsIdOrEmail ==
    (call.op = "get_user" /\ ~Truthy(Arg("id")) /\ ~Truthy(Arg("email"))) =>
        /\ result = Raise("ValueError")
        /\ exchanges = <<>>

C6_Witness ==
    /\ call.op = "get_user"
    /\ Arg("id") = Str("")
    /\ Arg("email") = None
    /\ result = Raise("ValueError")
    /\ exchanges = <<>>

\* C7: get_user with an email whose lookup answers with an empty or missing
\* collection returns the not-found error mapping without raising, and its
\* only request is the GET of users filtered by that email.
C7_EmailNotFound ==
    (call.op = "get_user" /\ Truthy(Arg("email"))) =>
        /\ Len(exchanges) >= 1
        /\ exchanges[1].request.method = "GET"
        /\ exchanges[1].request.url = Url("users")
        /\ Get(exchanges[1].request.params, "email") = Arg("email")
        /\ (~Truthy(Get(exchanges[1].returned.value, "collection")) =>
              /\ Len(exchanges) = 1
              /\ result = Return(Dict1("error",
                                       Str("User not found with the provided email."))))

C7_Witness ==
    /\ call.op = "get_user"
    /\ Arg("email") = Str("e@x")
    /\ Len(exchanges) = 1
    /\ exchanges[1].outcome = Ok(Dict1("collection", List(<<>>)))
    /\ result.kind = "return"
    /\ result.value.keys = <<"error">>

\* the call began with the list-users lookup
LookedUp ==
    /\ Len(exchanges) >= 1
    /\ exchanges[1].request.url = Url("users")

LastRequest == exchanges[Len(exchanges)].request

\* C8 as stated: get_user looks the user up by email only when email is
\* given and id is not; with a non-empty id its final request is GET
\* users/{id} for the supplied id; with only an email it is GET users/{id}
\* for the id of the first record of the lookup's collection.
C8_LookupOnlyWithoutId ==
    call.op = "get_user" =>
        /\ LookedUp => (Truthy(Arg("email")) /\ ~Truthy(Arg("id")))
        /\ Truthy(Arg("id")) =>
              /\ Len(exchanges) >= 1
              /\ LastRequest.method = "GET"
              /\ LastRequest.url = Url("users/" \o PyStr(Arg("id")))
        /\ (/\ ~Truthy(Arg("id")) /\ Truthy(Arg("email"))
            /\ Truthy(Get(exchanges[1].returned.value, "collection"))) =>
              /\ Len(exchanges) = 2
              /\ LastRequest.method = "GET"
              /\ LastRequest.url =
                    Url("users/" \o PyStr(Get(Get(exchanges[1].returned.value,
                                                  "collection").items[1], "id")))

PostsPayload == {"create_spot", "add_item", "create_group"}

Payload ==
    CASE call.op = "add_user" -> Arg("user_data")
      [] call.op = "create_spot" -> Arg("spot_data")
      [] call.op = "add_item" -> Arg("item_data")
      [] call.op = "create_group" -> Arg("group_data")

\* C9 as stated: for every user_data, add_user issues exactly one POST to
\* users whose body is the JSON text of [user_data], and create_spot,
\* add_item and create_group post the JSON text of the payload itself.
C9_AddUserAlwaysPostsBatch ==
    /\ call.op = "add_user" =>
          /\ Len(exchanges) = 1
          /\ exchanges[1].request.method = "POST"
          /\ exchanges[1].request.url = Url("users")
          /\ exchanges[1].request.data.t = "str"
    /\ call.op \in PostsPayload =>
          /\ Len(exchanges) = 1
          /\ exchanges[1].request.method = "POST"
          /\ exchanges[1].request.data.t = "str"

\* C9 as amended: for every user_data that json can serialize, add_user
\* issues exactly one POST to users whose body is the JSON text of the
\* one-element list [user_data], while create_spot, add_item and
\* create_group post the JSON text of the payload itself; a payload json
\* cannot serialize issues no request and returns an error mapping.
C9_AddUserPostsBatch ==
    /\ (call.op = "add_user" /\ Serializable(Payload)) =>
          /\ Len(exchanges) = 1
          /\ exchanges[1].request.method = "POST"
          /\ exchanges[1].request.url = Url("users")
          /\ exchanges[1].request.data = Str("[" \o JsonText(Payload) \o "]")
    /\ (call.op \in PostsPayload /\ Serializable(Payload)) =>
          /\ Len(exchanges) = 1
          /\ exchanges[1].request.method = "POST"
          /\ exchanges[1].request.url =
                Url(CASE call.op = "create_spot" -> "spots"
                      [] call.op = "add_item" ->
                            "spots/" \o PyStr(Arg("spot_id")) \o "/items"
                      [] call.op = "create_group" -> "groups")
          /\ exchanges[1].request.data = Str(JsonText(Payload))
    /\ (call.op \in PostsPayload \cup {"add_user"} /\ ~Serializable(Payload)) =>
          /\ exchanges = <<>>
          /\ result = Return(Dict1("error", Str("TypeError")))

C9_Witness ==
    /\ call.op = "add_user"
    /\ Arg("user_data") = Dict2("email", Str("n@x"), "active", True_)
    /\ Len(exchanges) = 1
    /\ exchanges[1].request.method = "POST"
    /\ exchanges[1].request.data = Str("[{\"email\": \"n@x\", \"active\": true}]")

SendsParams == {"list_users", "list_spots", "list_items_in_spot", "list_groups"}

\* C10 as stated: the parameter mapping that list_users, list_spots,
\* list_items_in_spot and list_groups hand to the GET request has no entry
\* whose value is None.
C10_NoAbsentParams ==
    call.op \in SendsParams =>
        \A req \in Requests :
            /\ req.params.t = "dict"
            /\ \A k \in DOMAIN req.params.d : req.params.d[k] # None

\* the records of the collection of the answer to the first request, or
\* none when the answer has no collection (an error mapping, for example)
ListedRecords ==
    LET answer == exchanges[1].returned.value
    IN  IF "collection" \in DOMAIN answer.d THEN answer.d["collection"].items ELSE <<>>

\* C11: get_spot_by_name issues exactly one request, the GET of spots, and
\* returns the id of the first record in collection order whose title equals
\* the name, or "Spot not found" when no record matches, which includes an
\* answer without a collection.
C11_FirstSpotWithTitle ==
    call.op = "get_spot_by_name" =>
        /\ Len(exchanges) = 1
        /\ exchanges[1].request.method = "GET"
        /\ exchanges[1].request.url = Url("spots")
        /\ result.kind = "return"
        /\ LET matches == {i \in 1..Len(ListedRecords) :
                              Get(ListedRecords[i], "title") = Arg("spot_name")}
           IN  /\ matches = {} => result.value = Str("Spot not found")
               /\ \A i \in matches :
                     (\A j \in matches : i <= j) =>
                         result.value = Get(ListedRecords[i], "id")

C11_Witness ==
    /\ call.op = "get_spot_by_name"
    /\ Arg("spot_name") = Str("A")
    /\ Len(exchanges) = 1
    /\ Len(ListedRecords) = 3
    /\ Get(ListedRecords[1], "title") = Str("B")
    /\ Get(ListedRecords[2], "title") = Str("A")
    /\ Get(ListedRecords[3], "title") = Str("A")
    /\ result = Return(Str("r1"))

CarriesPayload ==
    {"add_user", "create_spot", "add_item", "create_group",
     "update_spot", "update_item", "update_group"}

\* the payload argument of the call
SentPayload ==
    CASE call.op = "add_user" -> Arg("user_data")
      [] call.op \in {"create_spot", "update_spot"} -> Arg("spot_data")
      [] call.op \in {"add_item", "update_item"} -> Arg("item_data")
      [] call.op \in {"create_group", "update_group"} -> Arg("group_data")

\* C12 as stated: every request that carries a resource payload (the POST of
\* add_user, create_spot, add_item and create_group, the PATCH of
\* update_spot, update_item and update_group) has JSON text as its body,
\* the serialization of the payload (of [payload] for add_user), and says
\* application/json in its Content-Type header.  Stated for the payloads
\* json can serialize, the others having no JSON text.
C12_PayloadSentAsJson ==
    (call.op \in CarriesPayload /\ Serializable(SentPayload)) =>
        \A req \in Requests :
            /\ Header(req, "Content-Type") = Str("application/json")
            /\ req.data.t = "str"
            /\ req.data.v = (IF call.op = "add_user"
                             THEN "[" \o JsonText(SentPayload) \o "]"
                             ELSE JsonText(SentPayload))

\* C13: once construction has returned, the client's configuration is what
\* __init__ stored (the arguments, the token it fetched or was given, and
\* the headers built from them), and no step, a successful call or a failed
\* one, changes version, api_key, client_id, client_secret, use_basic_auth
\* or headers.
C13_ConfigurationFrozen ==
    /\ [](constructed =>
            /\ Str(version) = Get(init.args, "version")
            /\ client_id = Get(init.args, "client_id")
            /\ client_secret = Get(init.args, "client_secret")
            /\ use_basic_auth = Get(init.args, "use_basic_auth")
            /\ (init.exchanges = <<>> => api_key = Get(init.args, "api_key"))
            /\ headers.keys = <<"Authorization", "Content-Type">>
            /\ Get(headers, "Authorization") =
                  Str(IF Truthy(use_basic_auth) THEN "" ELSE "Bearer " \o PyStr(api_key))
            /\ Get(headers, "Content-Type") = Str("application/json")
            /\ \A req \in Requests :
                  ~IsTokenRequest(req) => req.headers = headers)
    /\ [][constructed => UNCHANGED config]_vars

C13_Witness ==
    /\ constructed
    /\ api_key = Str("tok")
    /\ Len(init.exchanges) = 1
    /\ call.op = "update_item"
    /\ Len(exchanges) = 1
    /\ exchanges[1].outcome = Failed("Timeout")
    /\ result = Return(Dict1("error", Str("Timeout")))
    /\ Get(headers, "Authorization") = Str("Bearer tok")
====
